---- MODULE Spec2Model ----
(***************************************************************************)
(* Juvonno MCP server: the JuvonnoClient wrapper (juvonno_api.py) and the  *)
(* FastAPI tool dispatcher (mcp_heroku_server.py).                         *)
(*                                                                         *)
(* Python strings whose characters matter (subdomains, base URLs, HTTP     *)
(* method names, endpoints) are sequences of one-character strings.  A     *)
(* Python value that may be None is a record [kind, s].  Every upstream    *)
(* HTTP round trip is logged in `calls` together with the reply the        *)
(* upstream gave, which is chosen nondeterministically.                    *)
(***************************************************************************)
EXTENDS Integers, Sequences, FiniteSets, TLC

VARIABLES
    env,        \* os.environ: JUVONNO_API_KEY, JUVONNO_SUBDOMAIN
    request,    \* the inbound request / the client operation and its inputs
    clients,    \* the JuvonnoClient instances constructed for the request
    calls,      \* the upstream HTTP calls issued for the request, in order
    response,   \* what the HTTP route answered
    result,     \* what the client operation returned (or that it raised)
    decor,      \* how the subdomain given to the constructor was written
    clock,      \* the calendar days the two datetime.now() reads returned
    book_patient_id, \* book_appointment's local: what patient resolution returned
    inflight         \* the requests being served concurrently, one per slot

vars == <<env, request, clients, calls, response, result, decor, clock, book_patient_id,
          inflight>>

(***************************************************************************)
(* Bounds of the model.                                                    *)
(***************************************************************************)
MaxLabelLen == 3     \* longest bare subdomain
MaxSlashes == 2      \* most trailing slashes of a decorated subdomain
MaxDay == 2          \* latest calendar day of a clock read

(***************************************************************************)
(* Python values.                                                          *)
(***************************************************************************)
None == [kind |-> "none", s |-> <<>>]
Str(s) == [kind |-> "str", s |-> s]
EmptyStr == Str(<<>>)

\* Python truthiness of an optional string: None and "" are falsy.
Truthy(v) == v.kind = "str" /\ v.s # <<>>

\* a or b
Or(a, b) == IF Truthy(a) THEN a ELSE b

(***************************************************************************)
(* Python str methods, on sequences of characters.                         *)
(***************************************************************************)
MatchAt(sub, s, i) ==
    /\ i + Len(sub) - 1 <= Len(s)
    /\ SubSeq(s, i, i + Len(sub) - 1) = sub

RECURSIVE Find(_, _, _)
\* 1-based index of the first occurrence of sub in s at or after i; 0 if none.
Find(sub, s, i) ==
    IF i + Len(sub) - 1 > Len(s) THEN 0
    ELSE IF MatchAt(sub, s, i) THEN i
    ELSE Find(sub, s, i + 1)

\* sub in s
Contains(sub, s) == Find(sub, s, 1) # 0

\* s.split(sep)[0]
SplitTakeFirst(sep, s) ==
    LET i == Find(sep, s, 1)
    IN  IF i = 0 THEN s ELSE SubSeq(s, 1, i - 1)

\* s.split(sep)[1], for s that contains sep
SplitSecond(sep, s) ==
    LET i == Find(sep, s, 1)
        rest == SubSeq(s, i + Len(sep), Len(s))
        j == Find(sep, rest, 1)
    IN  IF j = 0 THEN rest ELSE SubSeq(rest, 1, j - 1)

\* strips a single trailing c
RStripOne(c, s) ==
    IF s # <<>> /\ s[Len(s)] = c THEN SubSeq(s, 1, Len(s) - 1) ELSE s

RECURSIVE RStrip(_, _)
\* s.rstrip(c)
RStrip(c, s) ==
    IF s # <<>> /\ s[Len(s)] = c
    THEN RStrip(c, SubSeq(s, 1, Len(s) - 1))
    ELSE s

RECURSIVE LStrip(_, _)
\* s.lstrip(c)
LStrip(c, s) ==
    IF s # <<>> /\ s[1] = c
    THEN LStrip(c, SubSeq(s, 2, Len(s)))
    ELSE s

RECURSIVE Remove(_, _)
\* s.replace(sub, '')
Remove(sub, s) ==
    LET i == Find(sub, s, 1)
    IN  IF i = 0 THEN s
        ELSE SubSeq(s, 1, i - 1) \o Remove(sub, SubSeq(s, i + Len(sub), Len(s)))

UpperChar(c) ==
    CASE c = "g" -> "G" [] c = "e" -> "E" [] c = "t" -> "T"
      [] c = "p" -> "P" [] c = "o" -> "O" [] c = "s" -> "S"
      [] c = "u" -> "U" [] c = "d" -> "D" [] c = "l" -> "L"
      [] c = "a" -> "A" [] c = "c" -> "C" [] c = "h" -> "H"
      [] OTHER -> c

\* s.upper()
Upper(s) == [i \in 1..Len(s) |-> UpperChar(s[i])]

(***************************************************************************)
(* String literals of juvonno_api.py.                                      *)
(***************************************************************************)
SchemeSep == <<":", "/", "/">>
JuvonnoSuffix == <<".", "j", "u", "v", "o", "n", "n", "o", ".", "c", "o", "m">>
HttpsPrefix == <<"h", "t", "t", "p", "s", ":", "/", "/">>
ApiSuffix == JuvonnoSuffix \o <<"/", "a", "p", "i">>

(***************************************************************************)
(* JuvonnoClient.__init__                                                  *)
(***************************************************************************)
\* the clean-up of self.subdomain (a non-empty string)
CleanSubdomain(s) ==
    LET s1 == IF Contains(SchemeSep, s) THEN SplitSecond(SchemeSep, s) ELSE s
        s2 == RStrip("/", s1)
    IN  IF Contains(JuvonnoSuffix, s2) THEN Remove(JuvonnoSuffix, s2) ELSE s2

BaseUrl(s) == HttpsPrefix \o s \o ApiSuffix

\* The constructed instance.  has_base_url is FALSE when the attribute
\* base_url was never set (no subdomain given and none in the environment).
JuvonnoClient(api_key, subdomain, environ) ==
    LET key == Or(api_key, environ.JUVONNO_API_KEY)
        sub == Or(subdomain, environ.JUVONNO_SUBDOMAIN)
        clean == CleanSubdomain(sub.s)
    IN  IF Truthy(sub)
        THEN [api_key |-> key, subdomain |-> Str(clean),
              has_base_url |-> TRUE, base_url |-> BaseUrl(clean)]
        ELSE [api_key |-> key, subdomain |-> sub,
              has_base_url |-> FALSE, base_url |-> <<>>]

(***************************************************************************)
(* The upstream API: decoded JSON bodies and replies.                      *)
(***************************************************************************)
HTTP_OK == 200
HTTP_CREATED == 201
HTTP_UNAUTHORIZED == 401

\* response.json(): a body that is not JSON, a JSON list, a JSON object.
NotJson == [t |-> "notjson", items |-> <<>>, id |-> None]
JList(items) == [t |-> "list", items |-> items, id |-> None]
JObj(id) == [t |-> "obj", items |-> <<>>, id |-> id]
EmptyList == JList(<<>>)
Item(id, loc) == [id |-> id, location_id |-> loc]

Http(status, body) == [kind |-> "http", status_code |-> status, body |-> body]
\* requests raised (connection error, timeout): no response at all.
TransportError == [kind |-> "error", status_code |-> 0, body |-> NotJson]

\* 404 stands for every status the code does not name
Statuses == {HTTP_OK, HTTP_CREATED, HTTP_UNAUTHORIZED, 404}

Loc4 == Str(<<"4">>)
Loc5 == Str(<<"5">>)
Id7 == Str(<<"7">>)
Id9 == Str(<<"9">>)

TwoItems == JList(<<Item(Id7, Loc4), Item(Id9, Loc5)>>)
ItemNoId == JList(<<Item(None, Loc4)>>)

\* What the upstream may answer, per kind of endpoint: any status, with a
\* body of the endpoint's shape or one that is not JSON, or no answer.
StatusReplies == {Http(s, EmptyList) : s \in Statuses} \cup {TransportError}
ListReplies ==
    {Http(s, b) : s \in Statuses, b \in {NotJson, EmptyList, TwoItems}}
        \cup {TransportError}
SearchReplies ==
    {Http(s, b) : s \in Statuses, b \in {NotJson, EmptyList, TwoItems, ItemNoId}}
        \cup {TransportError}
ObjReplies ==
    {Http(s, b) : s \in Statuses, b \in {NotJson, JObj(Id7), JObj(None)}}
        \cup {TransportError}

Is(r, status) == r.kind = "http" /\ r.status_code = status

\* A call handed to requests.get/post/put/delete: self.headers carries the
\* client's api key, the URL starts with the client's base_url.
Call(method, client, path, arg, params, json, reply) ==
    [method |-> method, base |-> client.base_url, key |-> client.api_key,
     path |-> path, arg |-> arg, params |-> params, json |-> json, reply |-> reply]

(***************************************************************************)
(* What a client method hands back: a returned value, or an exception.     *)
(***************************************************************************)
Ret(t, b, json, id, code) ==
    [raised |-> FALSE, t |-> t, b |-> b, json |-> json, id |-> id,
     status_code |-> code]
RetBool(b) == Ret("bool", b, NotJson, None, 0)
RetJson(j) == Ret("json", FALSE, j, None, 0)
RetNone == Ret("none", FALSE, NotJson, None, 0)
RetId(v) == IF v = None THEN RetNone ELSE Ret("id", FALSE, NotJson, v, 0)
\* test_endpoint: {'status_code': .., 'response': ..}; b tells raw_text
RetStatus(code, body) ==
    Ret("status", body.t = "notjson", body, None, code)
\* test_endpoint: {'error': ..}
RetError == Ret("error", FALSE, NotJson, None, 0)
Raised == [raised |-> TRUE, t |-> "exception", b |-> FALSE, json |-> NotJson,
           id |-> None, status_code |-> 0]
NoResult == Ret("", FALSE, NotJson, None, 0)

Out(ret, cs) == [ret |-> ret, calls |-> cs]

(***************************************************************************)
(* JuvonnoClient methods.  A method of a client without base_url raises    *)
(* AttributeError at its first use of self.base_url, inside its try.       *)
(***************************************************************************)
\* validate_credentials without its try/except
validate_credentials_no_try(client, r) ==
    IF ~client.has_base_url THEN Out(Raised, <<>>)
    ELSE IF r.kind = "error"
         THEN Out(Raised, <<Call("GET", client, "branches", None, {}, {}, r)>>)
         ELSE Out(RetBool(Is(r, HTTP_OK)),
                  <<Call("GET", client, "branches", None, {}, {}, r)>>)

validate_credentials(client, r) ==
    IF ~client.has_base_url THEN Out(RetBool(FALSE), <<>>)
    ELSE Out(RetBool(Is(r, HTTP_OK)),
             <<Call("GET", client, "branches", None, {}, {}, r)>>)

\* get_providers without the validate_credentials call
get_providers_unvalidated(client, rValidate, rOptions) ==
    LET c == Call("GET", client, "branches/options", None, {}, {}, rOptions)
    IN  IF ~client.has_base_url THEN Out(RetJson(EmptyList), <<>>)
        ELSE IF Is(rOptions, HTTP_OK) /\ rOptions.body.t # "notjson"
             THEN Out(RetJson(rOptions.body), <<c>>)
             ELSE Out(RetJson(EmptyList), <<c>>)

\* get_providers that lists whatever validate_credentials answered
get_providers_ignoring_validation(client, rValidate, rOptions) ==
    LET v == validate_credentials(client, rValidate)
        c == Call("GET", client, "branches/options", None, {}, {}, rOptions)
    IN  IF ~client.has_base_url THEN Out(RetJson(EmptyList), v.calls)
        ELSE IF Is(rOptions, HTTP_OK) /\ rOptions.body.t # "notjson"
             THEN Out(RetJson(rOptions.body), v.calls \o <<c>>)
             ELSE Out(RetJson(EmptyList), v.calls \o <<c>>)

get_providers(client, rValidate, rOptions) ==
    LET v == validate_credentials(client, rValidate)
        c == Call("GET", client, "branches/options", None, {}, {}, rOptions)
    IN  IF ~v.ret.b THEN Out(RetJson(EmptyList), v.calls)
        ELSE IF Is(rOptions, HTTP_OK) /\ rOptions.body.t # "notjson"
             THEN Out(RetJson(rOptions.body), v.calls \o <<c>>)
             ELSE Out(RetJson(EmptyList), v.calls \o <<c>>)

RECURSIVE Plus(_)
Plus(n) == IF n = 0 THEN <<>> ELSE <<"+">> \o Plus(n - 1)

\* datetime.strftime('%Y-%m-%d') of calendar day n: one string per day.
strftime(n) == Str(<<"D">> \o Plus(n))

\* now1, now2: the calendar days of the two datetime.now() reads.
get_available_slots(client, start_date, end_date, provider_id, now1, now2, r) ==
    LET start == IF Truthy(start_date) THEN start_date ELSE strftime(now1)
        end == IF Truthy(end_date) THEN end_date ELSE strftime(now2 + 7)
        c == Call("GET", client, "appointments/availability",
                  IF Truthy(provider_id) THEN provider_id ELSE None,
                  {<<"start_date", start>>, <<"end_date", end>>}, {}, r)
    IN  IF ~client.has_base_url THEN Out(RetJson(EmptyList), <<>>)
        ELSE IF Is(r, HTTP_OK) /\ r.body.t # "notjson"
             THEN Out(RetJson(r.body), <<c>>)
             ELSE Out(RetJson(EmptyList), <<c>>)

get_appointment_types(client, r) ==
    LET c == Call("GET", client, "appointments/types", None, {}, {}, r)
    IN  IF ~client.has_base_url THEN Out(RetJson(EmptyList), <<>>)
        ELSE IF Is(r, HTTP_OK) /\ r.body.t # "notjson"
             THEN Out(RetJson(r.body), <<c>>)
             ELSE Out(RetJson(EmptyList), <<c>>)

get_appointment(client, appointment_id, r) ==
    LET c == Call("GET", client, "appointments", appointment_id, {}, {}, r)
    IN  IF ~client.has_base_url THEN Out(RetNone, <<>>)
        ELSE IF Is(r, HTTP_OK) /\ r.body.t # "notjson"
             THEN Out(RetJson(r.body), <<c>>)
             ELSE Out(RetNone, <<c>>)

(***************************************************************************)
(* Booking.  appointment_data is [fields, patient_details]: the top-level  *)
(* keys of the dict and the dict under its key 'patient_details' ({} when  *)
(* the key is missing); a key that is missing maps to None.                *)
(***************************************************************************)
PatientKeys == {"first_name", "last_name", "email", "phone", "date_of_birth"}
PatientDefaulted == {"gender", "address", "city", "state", "postal_code"}
NoPatientDetails == [k \in PatientKeys |-> None]

\* patient_payload, None values removed
patient_payload(patient_details) ==
    {<<k, patient_details[k]>> : k \in {x \in PatientKeys : patient_details[x] # None}}
        \cup {<<k, EmptyStr>> : k \in PatientDefaulted}
        \cup {<<"is_new_patient", Str(<<"True">>)>>}

create_patient(client, patient_details, before, rCreate) ==
    LET c == Call("POST", client, "patients", None, {},
                  patient_payload(patient_details), rCreate)
    IN  IF Is(rCreate, HTTP_CREATED) /\ rCreate.body.t = "obj"
        THEN Out(RetId(rCreate.body.id), before \o <<c>>)
        ELSE Out(RetNone, before \o <<c>>)

create_or_get_patient(client, patient_details, rSearch, rCreate) ==
    LET email == patient_details["email"]
        s == Call("GET", client, "patients/search", None,
                  {<<"email", email>>}, {}, rSearch)
    IN  IF ~client.has_base_url THEN Out(RetNone, <<>>)
        ELSE IF ~Truthy(email)
             THEN create_patient(client, patient_details, <<>>, rCreate)
        ELSE IF rSearch.kind = "error" THEN Out(RetNone, <<s>>)
        ELSE IF ~Is(rSearch, HTTP_OK)
             THEN create_patient(client, patient_details, <<s>>, rCreate)
        ELSE IF rSearch.body.t # "list" THEN Out(RetNone, <<s>>)
        ELSE IF rSearch.body.items # <<>>
             THEN Out(RetId(rSearch.body.items[1].id), <<s>>)
        ELSE create_patient(client, patient_details, <<s>>, rCreate)

appointment_payload(patient_id, fields) ==
    {<<"patient_id", patient_id>>,
     <<"provider_id", fields["provider_id"]>>,
     <<"start_time", fields["appointment_time"]>>,
     <<"appointment_type_id", fields["appointment_type"]>>,
     <<"notes", IF fields["notes"] # None THEN fields["notes"] ELSE EmptyStr>>}

\* the POST with its status test dropped
post_appointment_any_status(client, patient_id, fields, before, rBook) ==
    LET c == Call("POST", client, "appointments", None, {},
                  appointment_payload(patient_id, fields), rBook)
    IN  IF rBook.kind = "http" /\ rBook.body.t # "notjson"
        THEN Out(RetJson(rBook.body), before \o <<c>>)
        ELSE Out(Raised, before \o <<c>>)

\* lines 195-206: returns response.json() on 201, raises otherwise
post_appointment(client, patient_id, fields, before, rBook) ==
    LET c == Call("POST", client, "appointments", None, {},
                  appointment_payload(patient_id, fields), rBook)
    IN  IF Is(rBook, HTTP_CREATED) /\ rBook.body.t # "notjson"
        THEN Out(RetJson(rBook.body), before \o <<c>>)
        ELSE Out(Raised, before \o <<c>>)

\* JuvonnoClient.book_appointment; patient_id is kept for the record.
client_book_appointment(client, appointment_data, rSearch, rCreate, rBook) ==
    LET p == create_or_get_patient(client, appointment_data.patient_details,
                                   rSearch, rCreate)
        b == post_appointment(client, p.ret.id, appointment_data.fields,
                              p.calls, rBook)
    IN  IF ~Truthy(p.ret.id)
        THEN [ret |-> Raised, calls |-> p.calls, patient_id |-> p.ret.id]
        ELSE [ret |-> b.ret, calls |-> b.calls, patient_id |-> p.ret.id]

(***************************************************************************)
(* JuvonnoClient.test_endpoint                                             *)
(***************************************************************************)
GET == <<"G", "E", "T">>
POST == <<"P", "O", "S", "T">>
PUT == <<"P", "U", "T">>
DELETE == <<"D", "E", "L", "E", "T", "E">>
SupportedMethods == {GET, POST, PUT, DELETE}

MethodName(m) ==
    CASE m = GET -> "GET" [] m = POST -> "POST" [] m = PUT -> "PUT"
      [] m = DELETE -> "DELETE" [] OTHER -> "?"

\* the method taken as written
Identity(s) == s

\* method = method.upper()
NormaliseMethod(s) == Upper(s)

test_endpoint(client, endpoint, method, params, data, r) ==
    LET m == NormaliseMethod(method.s)
        c == Call(MethodName(m), client, "{endpoint}", Str(LStrip("/", endpoint)),
                  params, IF m \in {POST, PUT} THEN data ELSE {}, r)
    IN  IF ~Truthy(client.api_key) \/ ~Truthy(client.subdomain)
        THEN Out(RetError, <<>>)
        ELSE IF method.kind # "str" THEN Out(RetError, <<>>)
        ELSE IF m \notin SupportedMethods THEN Out(RetError, <<>>)
        ELSE IF r.kind = "error" THEN Out(RetError, <<c>>)
        ELSE Out(RetStatus(r.status_code, r.body), <<c>>)

(***************************************************************************)
(* mcp_heroku_server.py: requests and responses.                           *)
(***************************************************************************)
ToolNames == {"get_locations_by_postal_code", "get_providers_by_location",
              "get_available_slots", "book_appointment"}

required_fields == <<"provider_id", "appointment_time", "appointment_type",
                     "patient_name", "patient_email", "patient_phone">>
RequiredFields == {required_fields[i] : i \in 1..Len(required_fields)}

ArgNames == {"subdomain", "api_key", "postal_code", "location_id",
             "service_type", "start_date", "end_date", "notes", "appointment_id",
             "endpoint", "method"} \cup RequiredFields \cup PatientKeys
NoArgs == [a \in ArgNames |-> None]
NoRequest == [route |-> "", name |-> "", arguments |-> NoArgs]

\* A JSON answer of the service: the HTTP status, and the envelope (status,
\* the tool's data, appointment_id) or an error detail.
Answer(code, status, detail, tool, fields, data, id) ==
    [code |-> code, status |-> status, detail |-> detail, tool |-> tool,
     fields |-> fields, data |-> data, appointment_id |-> id,
     endpoints |-> <<>>]
NoResponse == Answer(0, "", "", "", <<>>, NotJson, None)
HTTPException(code, detail, tool, fields) ==
    Answer(code, "", detail, tool, fields, NotJson, None)
Success(data) == Answer(200, "success", "", "", <<>>, data, None)

Served(resp, cls, cs) == [response |-> resp, clients |-> cls, calls |-> cs]

\* The upstream's replies to the calls one request may cause.
NoReplies == [validate |-> TransportError, options |-> TransportError,
              slots |-> TransportError, search |-> TransportError,
              create |-> TransportError, book |-> TransportError]

(***************************************************************************)
(* Helper functions of the server.                                         *)
(***************************************************************************)
Locations == JList(<<Item(Loc4, None)>>)

get_locations_by_postal_code(client, postal_code) == Out(RetJson(Locations), <<>>)

get_providers_by_location(client, location_id, service_type, rs) ==
    LET p == get_providers(client, rs.validate, rs.options)
        keep(provider) == provider.location_id = location_id \/ location_id = Loc4
    IN  Out(RetJson(JList(SelectSeq(p.ret.json.items, keep))), p.calls)

server_get_available_slots(client, provider_id, start_date, end_date, rs) ==
    get_available_slots(client, start_date, end_date, provider_id, 0, 0, rs.slots)

\* appointment_data as the routes build it: no 'patient_details' key.
appointment_data_of(arguments) ==
    [fields |-> [k \in RequiredFields \cup {"notes"} |->
                    IF k \in RequiredFields THEN arguments[k] ELSE None],
     patient_details |-> NoPatientDetails]

server_book_appointment(client, appointment_data, rs) ==
    LET b == client_book_appointment(client, appointment_data,
                                     rs.search, rs.create, rs.book)
    IN  IF ~b.ret.raised /\ b.ret.json.t = "obj"
        THEN Out(Answer(200, "success", "", "", <<>>, NotJson, b.ret.json.id), b.calls)
        ELSE Out(Answer(200, "error", "Failed to book appointment", "", <<>>,
                        NotJson, None), b.calls)

(***************************************************************************)
(* POST /call-tool                                                         *)
(***************************************************************************)
\* only the first missing field
first_missing_field(arguments) ==
    SubSeq(SelectSeq(required_fields, LAMBDA f : ~Truthy(arguments[f])), 1, 1)

missing_fields(arguments) ==
    SelectSeq(required_fields, LAMBDA f : ~Truthy(arguments[f]))


credentials_missing(arguments) ==
    ~Truthy(arguments["subdomain"]) \/ ~Truthy(arguments["api_key"])

dispatch(req, client, rs) ==
    LET a == req.arguments
        one == <<client>>
    IN  CASE req.name = "get_locations_by_postal_code" ->
               IF ~Truthy(a["postal_code"])
               THEN Served(HTTPException(400, "Missing postal_code parameter",
                                         "", <<>>), one, <<>>)
               ELSE LET h == get_locations_by_postal_code(client, a["postal_code"])
                    IN  Served(Success(h.ret.json), one, h.calls)
          [] req.name = "get_providers_by_location" ->
               IF ~Truthy(a["location_id"]) \/ ~Truthy(a["service_type"])
               THEN Served(HTTPException(400,
                        "Missing location_id or service_type parameter", "", <<>>),
                        one, <<>>)
               ELSE LET h == get_providers_by_location(client, a["location_id"],
                                                       a["service_type"], rs)
                    IN  Served(Success(h.ret.json), one, h.calls)
          [] req.name = "get_available_slots" ->
               IF ~(Truthy(a["provider_id"]) /\ Truthy(a["start_date"])
                        /\ Truthy(a["end_date"]))
               THEN Served(HTTPException(400,
                        "Missing required parameters: provider_id, start_date, end_date",
                        "", <<>>), one, <<>>)
               ELSE LET h == server_get_available_slots(client, a["provider_id"],
                                a["start_date"], a["end_date"], rs)
                    IN  Served(Success(h.ret.json), one, h.calls)
          [] req.name = "book_appointment" ->
               IF missing_fields(a) # <<>>
               THEN Served(HTTPException(400, "Missing required fields", "",
                                         missing_fields(a)), one, <<>>)
               ELSE LET h == server_book_appointment(client, appointment_data_of(a), rs)
                    IN  Served(h.ret, one, h.calls)
          [] OTHER ->
               Served(HTTPException(400, "Unknown tool", req.name, <<>>), one, <<>>)

\* call_tool with the tool name looked at before the credentials
dispatch_before_credentials(req, environ, rs) ==
    IF req.name \notin ToolNames
    THEN Served(HTTPException(400, "Unknown tool", req.name, <<>>), <<>>, <<>>)
    ELSE IF credentials_missing(req.arguments)
    THEN Served(HTTPException(400,
             "Missing required parameters: subdomain and api_key", "", <<>>),
             <<>>, <<>>)
    ELSE dispatch(req, JuvonnoClient(req.arguments["api_key"],
                                     req.arguments["subdomain"], environ), rs)

\* call_tool with the client constructed before the credentials check
construct_before_credentials(req, environ, rs) ==
    LET client == JuvonnoClient(req.arguments["api_key"],
                                req.arguments["subdomain"], environ)
    IN  IF credentials_missing(req.arguments)
        THEN Served(HTTPException(400,
                 "Missing required parameters: subdomain and api_key", "", <<>>),
                 <<client>>, <<>>)
        ELSE dispatch(req, client, rs)

\* The except Exception branch (500) is not taken: on string arguments the
\* constructor does not raise, and every helper catches what its client
\* call raises.
call_tool(req, environ, rs) ==
    IF credentials_missing(req.arguments)
    THEN Served(HTTPException(400,
             "Missing required parameters: subdomain and api_key", "", <<>>),
             <<>>, <<>>)
    ELSE dispatch(req, JuvonnoClient(req.arguments["api_key"],
                                     req.arguments["subdomain"], environ), rs)

(***************************************************************************)
(* The direct routes.  Their bodies are pydantic models: every field is a  *)
(* string, possibly empty.                                                 *)
(***************************************************************************)
\* The route table: the paths the decorators register a handler for
\* (@app.get("/"), @app.get("/tools") and the four @app.post routes).
Routes == {"/", "/tools", "/call-tool", "/get-locations", "/get-providers",
           "/book-appointment"}

\* GET /: the health payload and the "endpoints" it lists.
root_endpoints == <<"/tools", "/call-tool", "/get-locations", "/get-providers",
                    "/get-slots", "/book-appointment", "/get-appointment-types">>

root ==
    Served([Answer(HTTP_OK, "online", "", "", <<>>, NotJson, None)
                EXCEPT !.endpoints = root_endpoints], <<>>, <<>>)

get_locations_endpoint(req, environ, rs) ==
    LET client == JuvonnoClient(req.arguments["api_key"],
                                req.arguments["subdomain"], environ)
        h == get_locations_by_postal_code(client, req.arguments["postal_code"])
    IN  Served(Success(h.ret.json), <<client>>, h.calls)

get_providers_endpoint(req, environ, rs) ==
    LET client == JuvonnoClient(req.arguments["api_key"],
                                req.arguments["subdomain"], environ)
        h == get_providers_by_location(client, req.arguments["location_id"],
                                       req.arguments["service_type"], rs)
    IN  Served(Success(h.ret.json), <<client>>, h.calls)

book_appointment_endpoint(req, environ, rs) ==
    LET client == JuvonnoClient(req.arguments["api_key"],
                                req.arguments["subdomain"], environ)
        h == server_book_appointment(client, appointment_data_of(req.arguments), rs)
    IN  Served(h.ret, <<client>>, h.calls)

(***************************************************************************)
(* Inputs.                                                                 *)
(***************************************************************************)
Val == Str(<<"v">>)
FieldVals == {None, EmptyStr, Val}

TenantA == <<"a">>
DecoratedA == HttpsPrefix \o TenantA \o JuvonnoSuffix \o <<"/">>
KeyK == Str(<<"k">>)
EnvKey == Str(<<"K">>)
EnvSubdomain == Str(<<"e">>)

Envs == [JUVONNO_API_KEY : {None, EnvKey}, JUVONNO_SUBDOMAIN : {None, EnvSubdomain}]

\* argument mappings that give the names in `names` values of `vals`
ArgsOver(names, vals) ==
    {[n \in ArgNames |-> IF n \in names THEN f[n] ELSE None] : f \in [names -> vals]}

WithCredentials(a, sub, key) ==
    [a EXCEPT !["subdomain"] = sub, !["api_key"] = key]

UnknownNames == {"cancel_appointment", "get_appointment_types"}

ToolArgs(name) ==
    CASE name = "get_providers_by_location" ->
           {[x EXCEPT !["location_id"] = l] :
                x \in ArgsOver({"service_type"}, {None, Val}),
                l \in {None, Loc4, Loc5}}
      [] name = "get_available_slots" ->
           ArgsOver({"provider_id", "start_date", "end_date"}, {None, Val})
      [] name = "book_appointment" ->
           {[n \in ArgNames |-> IF n \in {"provider_id", "patient_email"}
                                THEN y[n] ELSE x[n]] :
                x \in ArgsOver(RequiredFields, {None, Val}),
                y \in ArgsOver({"provider_id", "patient_email"}, FieldVals)}
      [] OTHER -> ArgsOver({"postal_code"}, FieldVals)

RepliesFor(name) ==
    CASE name = "get_providers_by_location" ->
           {[NoReplies EXCEPT !.validate = v, !.options = o] :
                v \in StatusReplies, o \in ListReplies}
      [] name = "get_available_slots" ->
           {[NoReplies EXCEPT !.slots = s] : s \in ListReplies}
      [] name = "book_appointment" ->
           {[NoReplies EXCEPT !.search = s, !.create = c, !.book = b] :
                s \in {TransportError, Http(HTTP_OK, TwoItems)},
                c \in ObjReplies, b \in ObjReplies}
      [] OTHER -> {NoReplies}

\* The replies that matter to a handler: none when it issues no call.
RepliesOf(name, issuesCalls) ==
    IF issuesCalls THEN RepliesFor(name) ELSE {NoReplies}

NoDecor == [label |-> <<>>, scheme |-> <<>>, suffix |-> FALSE, slashes |-> 0]

\* The worker serves up to two requests at a time.
Slots == {1, 2}

\* A slot: the request, a reference to the client its handler constructed
\* (an index into `clients`, 0 before construction), the upstream replies
\* received so far, the endpoint whose reply it waits for, and its response.
NoInflight ==
    [pc |-> "idle", request |-> NoRequest, client |-> 0, replies |-> NoReplies,
     answered |-> 0, pending |-> "", response |-> NoResponse]

Idle ==
    /\ request = NoRequest
    /\ calls = <<>>
    /\ response = NoResponse
    /\ result = NoResult
    /\ clock = <<0, 0>>
    /\ book_patient_id = None
    /\ inflight = [r \in Slots |-> NoInflight]

(***************************************************************************)
(* The HTTP service: one request, served by its route's handler.           *)
(***************************************************************************)
Init ==
    /\ env \in Envs
    /\ clients = <<>>
    /\ decor = NoDecor
    /\ Idle

Serve(req, out) ==
    /\ request' = req
    /\ clients' = out.clients
    /\ calls' = out.calls
    /\ response' = out.response
    /\ UNCHANGED <<env, result, decor, clock, book_patient_id, inflight>>

CallTool ==
    /\ request = NoRequest
    /\ \E name \in ToolNames \cup UnknownNames :
       \E a \in ToolArgs(name), sub \in {None, EmptyStr, Str(TenantA), Str(DecoratedA)},
          key \in {None, EmptyStr, KeyK} :
          LET req == [route |-> "/call-tool", name |-> name,
                      arguments |-> WithCredentials(a, sub, key)]
              dry == call_tool(req, env, NoReplies)
          IN  \E rs \in RepliesOf(name, dry.calls # <<>>) :
                  Serve(req, call_tool(req, env, rs))

Root ==
    /\ request = NoRequest
    /\ Serve([route |-> "/", name |-> "", arguments |-> NoArgs], root)

BodyCredentials ==
    {WithCredentials(NoArgs, sub, key) :
        sub \in {EmptyStr, Str(TenantA), Str(DecoratedA)}, key \in {EmptyStr, KeyK}}

GetLocationsEndpoint ==
    /\ request = NoRequest
    /\ \E c \in BodyCredentials, p \in {EmptyStr, Val} :
          LET req == [route |-> "/get-locations", name |-> "",
                      arguments |-> [c EXCEPT !["postal_code"] = p]]
          IN  Serve(req, get_locations_endpoint(req, env, NoReplies))

GetProvidersEndpoint ==
    /\ request = NoRequest
    /\ \E c \in BodyCredentials, l \in {EmptyStr, Loc4, Loc5}, s \in {EmptyStr, Val} :
          LET req == [route |-> "/get-providers", name |-> "",
                      arguments |-> [c EXCEPT !["location_id"] = l,
                                              !["service_type"] = s]]
              dry == get_providers_endpoint(req, env, NoReplies)
          IN  \E rs \in RepliesOf("get_providers_by_location", dry.calls # <<>>) :
                  Serve(req, get_providers_endpoint(req, env, rs))

BookAppointmentEndpoint ==
    /\ request = NoRequest
    /\ \E c \in BodyCredentials, p \in {EmptyStr, Val}, e \in {EmptyStr, Val} :
          LET req == [route |-> "/book-appointment", name |-> "",
                      arguments |-> [c EXCEPT !["provider_id"] = p,
                                              !["appointment_time"] = Val,
                                              !["appointment_type"] = Val,
                                              !["patient_name"] = Val,
                                              !["patient_email"] = e,
                                              !["patient_phone"] = Val]]
              dry == book_appointment_endpoint(req, env, NoReplies)
          IN  \E rs \in RepliesOf("book_appointment", dry.calls # <<>>) :
                  Serve(req, book_appointment_endpoint(req, env, rs))

Next ==
    \/ Root
    \/ CallTool
    \/ GetLocationsEndpoint
    \/ GetProvidersEndpoint
    \/ BookAppointmentEndpoint

Spec == Init /\ [][Next]_vars

(***************************************************************************)
(* The client used directly: one instance, one method call.                *)
(***************************************************************************)
InitClient ==
    /\ env \in Envs
    /\ \E key \in {None, KeyK}, sub \in {None, Str(TenantA), Str(DecoratedA)} :
          clients = <<JuvonnoClient(key, sub, env)>>
    /\ decor = NoDecor
    /\ Idle

Invoke(name, a, out) ==
    /\ request' = [route |-> "client", name |-> name, arguments |-> a]
    /\ calls' = out.calls
    /\ result' = out.ret
    /\ book_patient_id' = IF "patient_id" \in DOMAIN out THEN out.patient_id ELSE None
    /\ UNCHANGED <<env, clients, response, decor, inflight>>

ValidateCredentials ==
    /\ request = NoRequest
    /\ \E r \in StatusReplies :
          Invoke("validate_credentials", NoArgs, validate_credentials(clients[1], r))
    /\ UNCHANGED clock

GetProviders ==
    /\ request = NoRequest
    /\ \E v \in StatusReplies, o \in ListReplies :
          Invoke("get_providers", NoArgs, get_providers(clients[1], v, o))
    /\ UNCHANGED clock

GetAvailableSlots ==
    /\ request = NoRequest
    /\ \E a \in ArgsOver({"start_date", "end_date", "provider_id"}, {None, Val}),
          now1 \in 0..MaxDay, r \in ListReplies :
       \E now2 \in {now1, now1 + 1} :
          /\ Invoke("get_available_slots", a,
                    get_available_slots(clients[1], a["start_date"], a["end_date"],
                                        a["provider_id"], now1, now2, r))
          /\ clock' = <<IF Truthy(a["start_date"]) THEN 0 ELSE now1,
                        IF Truthy(a["end_date"]) THEN 0 ELSE now2>>

GetAppointmentTypes ==
    /\ request = NoRequest
    /\ \E r \in ListReplies :
          Invoke("get_appointment_types", NoArgs, get_appointment_types(clients[1], r))
    /\ UNCHANGED clock

GetAppointment ==
    /\ request = NoRequest
    /\ \E r \in ObjReplies :
          Invoke("get_appointment", [NoArgs EXCEPT !["appointment_id"] = Id9],
                 get_appointment(clients[1], Id9, r))
    /\ UNCHANGED clock

Email == Str(<<"e", "@", "x">>)
PatientArgs ==
    {[x EXCEPT !["first_name"] = Val, !["last_name"] = Val] :
        x \in ArgsOver({"email", "phone"}, {None, Email})}
patient_details_of(a) == [k \in PatientKeys |-> a[k]]

CreateOrGetPatient ==
    /\ request = NoRequest
    /\ \E a \in PatientArgs, s \in SearchReplies, c \in ObjReplies :
          Invoke("_create_or_get_patient", a,
                 create_or_get_patient(clients[1], patient_details_of(a), s, c))
    /\ UNCHANGED clock

BookAppointment ==
    /\ request = NoRequest
    /\ \E p \in PatientArgs, n \in {None, Val},
          s \in SearchReplies, c \in ObjReplies, b \in ObjReplies :
          LET a == [p EXCEPT !["provider_id"] = Val, !["appointment_time"] = Val,
                             !["appointment_type"] = Val, !["notes"] = n]
              data == [fields |-> [k \in RequiredFields \cup {"notes"} |-> a[k]],
                       patient_details |-> patient_details_of(a)]
              out == client_book_appointment(clients[1], data, s, c, b)
          IN  /\ Invoke("book_appointment", a, out)
    /\ UNCHANGED clock

Methods == {None, Str(GET), Str(<<"g", "e", "t">>), Str(POST), Str(<<"P", "u", "t">>),
            Str(<<"d", "e", "l", "e", "t", "e">>), Str(<<"P", "A", "T", "C", "H">>),
            Str(<<"p", "a", "t", "c", "h">>), EmptyStr}
Endpoints == {<<"a", "/", "9">>, <<"/", "a", "/", "9">>}
Query == {<<"q", Val>>}

TestEndpoint ==
    /\ request = NoRequest
    /\ \E e \in Endpoints, m \in Methods, params \in {{}, Query}, data \in {{}, Query},
          r \in ObjReplies :
          Invoke("test_endpoint",
                 [NoArgs EXCEPT !["endpoint"] = Str(e), !["method"] = m,
                                !["notes"] = IF data = {} THEN None ELSE Val,
                                !["postal_code"] = IF params = {} THEN None ELSE Val],
                 test_endpoint(clients[1], e, m, params, data, r))
    /\ UNCHANGED clock

NextClient ==
    \/ ValidateCredentials
    \/ GetProviders
    \/ GetAvailableSlots
    \/ GetAppointmentTypes
    \/ GetAppointment
    \/ CreateOrGetPatient
    \/ BookAppointment
    \/ TestEndpoint

SpecClient == InitClient /\ [][NextClient]_vars

(***************************************************************************)
(* The constructor alone, on subdomains written in every decorated way.    *)
(***************************************************************************)
\* characters of a host name
LabelChars == {"a", "b", "."}
Labels == UNION {[1..n -> LabelChars] : n \in 1..MaxLabelLen}
Schemes == {<<>>, <<"x">>, <<"h", "t", "t", "p", "s">>}

RECURSIVE Slashes(_)
Slashes(n) == IF n = 0 THEN <<>> ELSE <<"/">> \o Slashes(n - 1)

\* the subdomain as the caller wrote it
Written(d) ==
    (IF d.scheme = <<>> THEN <<>> ELSE d.scheme \o SchemeSep)
        \o d.label
        \o (IF d.suffix THEN JuvonnoSuffix ELSE <<>>)
        \o Slashes(d.slashes)

InitUrl ==
    /\ env \in Envs
    /\ clients = <<>>
    /\ decor \in [label : Labels, scheme : Schemes, suffix : BOOLEAN,
                  slashes : 0..MaxSlashes]
    /\ Idle

\* JuvonnoClient(api_key, subdomain) on the written subdomain
Construct ==
    /\ clients = <<>>
    /\ clients' = <<JuvonnoClient(KeyK, Str(Written(decor)), env)>>
    /\ request' = [route |-> "client", name |-> "__init__",
                   arguments |-> WithCredentials(NoArgs, Str(Written(decor)), KeyK)]
    /\ UNCHANGED <<env, calls, response, result, decor, clock, book_patient_id, inflight>>

\* a second instance, from the first one's normalised subdomain
ConstructAgain ==
    /\ Len(clients) = 1
    /\ clients' = Append(clients, JuvonnoClient(KeyK, clients[1].subdomain, env))
    /\ UNCHANGED <<env, request, calls, response, result, decor, clock, book_patient_id,
                   inflight>>

NextUrl == Construct \/ ConstructAgain

SpecUrl == InitUrl /\ [][NextUrl]_vars

(***************************************************************************)
(* Properties.                                                             *)
(***************************************************************************)
IsCallTool == request.route = "/call-tool"
Arg(n) == request.arguments[n]
CredentialsGiven == Truthy(Arg("subdomain")) /\ Truthy(Arg("api_key"))
MissingCredentialsDetail == "Missing required parameters: subdomain and api_key"

\* C1 as stated: a callTool request with an unknown tool name is answered,
\* whatever its arguments (credentials missing or empty included), by a 400
\* whose detail names the unknown tool, and no upstream call is issued.
C1_UnknownToolAlwaysNamed ==
    (IsCallTool /\ request.name \notin ToolNames) =>
        /\ response.code = 400
        /\ response.detail = "Unknown tool"
        /\ response.tool = request.name
        /\ calls = <<>>

\* C1 as amended: a callTool request with an unknown tool name is always
\* answered by a 400 and issues no upstream call; the detail names the
\* unknown tool when subdomain and api_key are both given and non-empty,
\* and is the missing-credentials detail otherwise.
C1_UnknownToolNamedWhenCredentialsGiven ==
    (IsCallTool /\ request.name \notin ToolNames) =>
        /\ response.code = 400
        /\ calls = <<>>
        /\ IF CredentialsGiven
           THEN response.detail = "Unknown tool" /\ response.tool = request.name
           ELSE response.detail = MissingCredentialsDetail /\ response.tool = ""

C1_Witness ==
    /\ IsCallTool
    /\ request.name = "cancel_appointment"
    /\ CredentialsGiven
    /\ response.code = 400
    /\ response.tool = "cancel_appointment"

\* C2: a callTool request whose subdomain or api_key is missing (or empty)
\* is answered by the 400 missing-credentials error, with no JuvonnoClient
\* constructed and no upstream call issued, whatever the tool name and the
\* other arguments.
C2_MissingCredentialsFailFirst ==
    (IsCallTool /\ ~CredentialsGiven) =>
        /\ response.code = 400
        /\ response.detail = MissingCredentialsDetail
        /\ clients = <<>>
        /\ calls = <<>>

C2_Witness ==
    /\ IsCallTool
    /\ request.name = "book_appointment"
    /\ Arg("api_key") = None
    /\ Truthy(Arg("subdomain"))
    /\ \A f \in RequiredFields : Truthy(Arg(f))
    /\ response.code = 400
    /\ clients = <<>>

Omitted == {f \in RequiredFields : Arg(f) = None}
GivenEmpty == {f \in RequiredFields : Arg(f) = EmptyStr}
Listed == {response.fields[i] : i \in 1..Len(response.fields)}

HttpRoutes == {"/call-tool", "/get-locations", "/get-providers", "/book-appointment"}

\* C4: every upstream call an HTTP route causes carries the api key given
\* in the request body and goes to the base URL of the subdomain given in the
\* request body, so that the environment defaults never reach an upstream call.
C4_UpstreamCarriesRequestCredentials ==
    (request.route \in HttpRoutes) =>
        \A i \in 1..Len(calls) :
            /\ calls[i].key = Arg("api_key")
            /\ calls[i].base =
                  HttpsPrefix \o CleanSubdomain(Arg("subdomain").s) \o ApiSuffix

IsClientCall(name) == request.route = "client" /\ request.name = name
PostsAppointment(c) == c.method = "POST" /\ c.path = "appointments"

\* C5: bookAppointment returns a value only when patient resolution gave a
\* patient id and the upstream POST /appointments answered 201; when patient
\* resolution gives no id it raises and never issues POST /appointments;
\* when the POST answers anything other than 201 it raises.
C5_BookReturnsOnlyOnCreated ==
    IsClientCall("book_appointment") =>
        /\ ~result.raised =>
              /\ Truthy(book_patient_id)
              /\ calls # <<>>
              /\ PostsAppointment(calls[Len(calls)])
              /\ Is(calls[Len(calls)].reply, HTTP_CREATED)
        /\ ~Truthy(book_patient_id) =>
              /\ result.raised
              /\ \A i \in 1..Len(calls) : ~PostsAppointment(calls[i])
        /\ \A i \in 1..Len(calls) :
              (PostsAppointment(calls[i]) /\ ~Is(calls[i].reply, HTTP_CREATED))
                  => result.raised

C5_Witness ==
    /\ IsClientCall("book_appointment")
    /\ Len(calls) = 3
    /\ calls[1].path = "patients/search"
    /\ calls[2].path = "patients"
    /\ PostsAppointment(calls[3])
    /\ Is(calls[3].reply, 404)
    /\ result.raised

BookingRequest ==
    \/ request.route = "/book-appointment"
    \/ /\ IsCallTool
       /\ request.name = "book_appointment"
       /\ CredentialsGiven
       /\ \A f \in RequiredFields : Truthy(Arg(f))

\* C6: a book_appointment request that passes validation (POST /call-tool
\* or POST /book-appointment) is always answered 200 with an envelope whose
\* status is "success" or "error", and the status is "success" exactly when
\* the upstream POST /appointments answered 201.
C6_BookingEnvelope ==
    BookingRequest =>
        /\ response.code = 200
        /\ response.status \in {"success", "error"}
        /\ response.status = "success" <=>
              \E i \in 1..Len(calls) :
                  PostsAppointment(calls[i]) /\ Is(calls[i].reply, HTTP_CREATED)

SentinelOps == {"validate_credentials", "get_providers", "get_available_slots",
                "get_appointment_types", "get_appointment", "_create_or_get_patient"}

\* C7: no client operation other than bookAppointment raises, whatever the
\* upstream answers and also on a client without subdomain or api key:
\* validateCredentials returns a boolean, true only when GET /branches
\* answered 200; getProviders, getAvailableSlots and getAppointmentTypes
\* return a list, empty unless their call answered 200; getAppointment
\* returns a record or absent; resolvePatient returns an id or absent.
C7_ClientOperationsNeverRaise ==
    (request.route = "client" /\ request.name \in SentinelOps) =>
        /\ ~result.raised
        /\ request.name = "validate_credentials" =>
              /\ result.t = "bool"
              /\ result.b <=> (calls # <<>> /\ Is(calls[1].reply, HTTP_OK))
        /\ request.name \in {"get_providers", "get_available_slots",
                             "get_appointment_types"} =>
              /\ result.t = "json"
              /\ result.json.t = "list"
              /\ result.json.items # <<>> =>
                    (calls # <<>> /\ Is(calls[Len(calls)].reply, HTTP_OK))
        /\ request.name = "get_appointment" =>
              \/ result.t = "none"
              \/ result.t = "json" /\ result.json.t = "obj"
        /\ request.name = "_create_or_get_patient" =>
              \/ result.t = "none"
              \/ result.t = "id" /\ result.id # None
        /\ ~clients[1].has_base_url => calls = <<>>

C7_Witness ==
    /\ IsClientCall("validate_credentials")
    /\ ~clients[1].has_base_url
    /\ ~result.raised
    /\ result.t = "bool"
    /\ result.b = FALSE

PassesValidation ==
    /\ IsCallTool
    /\ CredentialsGiven
    /\ CASE request.name = "get_locations_by_postal_code" -> Truthy(Arg("postal_code"))
         [] request.name = "get_providers_by_location" ->
              Truthy(Arg("location_id")) /\ Truthy(Arg("service_type"))
         [] request.name = "get_available_slots" ->
              Truthy(Arg("provider_id")) /\ Truthy(Arg("start_date"))
                  /\ Truthy(Arg("end_date"))
         [] request.name = "book_appointment" ->
              \A f \in RequiredFields : Truthy(Arg(f))
         [] OTHER -> FALSE

\* C8 as stated: a callTool dispatch that passes validation performs exactly
\* one upstream round trip, except book_appointment, which performs at most
\* two; no dispatch performs more than two.
C8_OneRoundTripPerDispatch ==
    PassesValidation =>
        /\ request.name # "book_appointment" => Len(calls) = 1
        /\ Len(calls) <= 2

\* C8 as amended: a callTool dispatch that passes validation performs no
\* upstream round trip for get_locations_by_postal_code, one or two for
\* get_providers_by_location (two exactly when GET /branches answered 200),
\* exactly one for get_available_slots and one or two for book_appointment;
\* no dispatch performs more than two.
C8_RoundTripsPerTool ==
    PassesValidation =>
        /\ request.name = "get_locations_by_postal_code" => Len(calls) = 0
        /\ request.name = "get_providers_by_location" =>
              /\ Len(calls) \in {1, 2}
              /\ calls[1].path = "branches"
              /\ Len(calls) = 2 <=> Is(calls[1].reply, HTTP_OK)
        /\ request.name = "get_available_slots" => Len(calls) = 1
        /\ request.name = "book_appointment" => Len(calls) \in {1, 2}
        /\ Len(calls) <= 2

C8_Witness ==
    /\ PassesValidation
    /\ request.name = "get_providers_by_location"
    /\ Len(calls) = 2
    /\ calls[2].path = "branches/options"

Canonical(label) ==
    <<"h", "t", "t", "p", "s", ":", "/", "/">> \o label
        \o <<".", "j", "u", "v", "o", "n", "n", "o", ".", "c", "o", "m">>
        \o <<"/", "a", "p", "i">>

\* C9: for every bare subdomain s and every combination of a scheme prefix,
\* trailing slashes and the .juvonno.com suffix written around it, the
\* constructed client's base_url is https://s.juvonno.com/api, and a client
\* constructed from the normalised subdomain has the same subdomain and
\* base_url again.
C9_BaseUrlCanonical ==
    /\ Len(clients) >= 1 =>
          /\ clients[1].has_base_url
          /\ clients[1].base_url = Canonical(decor.label)
          /\ clients[1].subdomain = Str(decor.label)
    /\ Len(clients) = 2 => clients[2] = clients[1]

C9_Witness ==
    /\ Len(clients) = 2
    /\ decor.scheme # <<>>
    /\ decor.suffix
    /\ decor.slashes = MaxSlashes
    /\ Len(decor.label) = MaxLabelLen
    /\ clients[2].base_url = Canonical(decor.label)

Degraded == ~Truthy(clients[1].api_key) \/ ~Truthy(clients[1].subdomain)

\* C10 as stated: genericRequest never raises and returns {status_code,
\* response} or an error structure; a method outside {GET, POST, PUT, DELETE}
\* gives the error structure and no upstream call; a response whose body is
\* not JSON gives {status_code, response: {raw_text}} with the upstream
\* status code.
C10_GenericRequestNeverRaises ==
    IsClientCall("test_endpoint") =>
        /\ ~result.raised
        /\ result.t \in {"status", "error"}
        /\ Arg("method").s \notin SupportedMethods =>
              (result.t = "error" /\ calls = <<>>)
        /\ calls # <<>> /\ calls[1].reply.kind = "http" =>
              /\ result.t = "status"
              /\ result.status_code = calls[1].reply.status_code
              /\ result.b <=> calls[1].reply.body.t = "notjson"

\* C10 as amended: the same, with the method compared after upper-casing:
\* a method whose upper-case form is outside {GET, POST, PUT, DELETE} (or no
\* method) gives the error structure and no upstream call, and any other
\* method, in whatever case, is sent upstream as its upper-case form unless
\* the client lacks api key or subdomain.
C10_GenericRequestUpperCasesMethod ==
    IsClientCall("test_endpoint") =>
        /\ ~result.raised
        /\ result.t \in {"status", "error"}
        /\ (Arg("method") = None \/ Upper(Arg("method").s) \notin SupportedMethods) =>
              (result.t = "error" /\ calls = <<>>)
        /\ (Arg("method") # None /\ Upper(Arg("method").s) \in SupportedMethods
                /\ ~Degraded) =>
              /\ Len(calls) = 1
              /\ calls[1].method = MethodName(Upper(Arg("method").s))
        /\ Degraded => (result.t = "error" /\ calls = <<>>)
        /\ calls # <<>> /\ calls[1].reply.kind = "http" =>
              /\ result.t = "status"
              /\ result.status_code = calls[1].reply.status_code
              /\ result.b <=> calls[1].reply.body.t = "notjson"
        /\ calls # <<>> /\ calls[1].reply.kind = "error" => result.t = "error"

C10_Witness ==
    /\ IsClientCall("test_endpoint")
    /\ Arg("method") = Str(<<"g", "e", "t">>)
    /\ Len(calls) = 1
    /\ calls[1].method = "GET"
    /\ calls[1].arg = Str(<<"a", "/", "9">>)
    /\ Is(calls[1].reply, 404)
    /\ result.t = "status"
    /\ result.status_code = 404
    /\ result.b

(***************************************************************************)
(* POST /call-tool served concurrently: requests arrive while others wait  *)
(* for the upstream, and every upstream call is a point where the requests *)
(* may interleave.                                                         *)
(***************************************************************************)
TenantB == <<"b">>
KeyL == Str(<<"l">>)

\* the credentials a request may carry: two tenants, or no subdomain
Carried ==
    {[subdomain |-> Str(TenantA), api_key |-> KeyK],
     [subdomain |-> Str(TenantB), api_key |-> KeyL],
     [subdomain |-> None, api_key |-> KeyK]}

ConcArgs(name) ==
    CASE name = "get_providers_by_location" ->
           [NoArgs EXCEPT !["location_id"] = Loc4, !["service_type"] = Val]
      [] name = "get_available_slots" ->
           [NoArgs EXCEPT !["provider_id"] = Val, !["start_date"] = Val,
                          !["end_date"] = Val]
      [] name = "book_appointment" ->
           [n \in ArgNames |-> IF n \in RequiredFields THEN Val ELSE None]
      [] OTHER -> [NoArgs EXCEPT !["postal_code"] = Val]

ConcRequests ==
    {[route |-> "/call-tool", name |-> name,
      arguments |-> WithCredentials(ConcArgs(name), c.subdomain, c.api_key)] :
        name \in ToolNames \cup {"cancel_appointment"}, c \in Carried}

\* the reply an upstream call waits for, by the path it was sent to
ReplyField(path) ==
    CASE path = "branches" -> "validate"
      [] path = "branches/options" -> "options"
      [] path = "appointments/availability" -> "slots"
      [] path = "patients/search" -> "search"
      [] path = "patients" -> "create"
      [] path = "appointments" -> "book"

ConcReplies(field) ==
    CASE field = "validate" -> {Http(HTTP_OK, EmptyList), Http(HTTP_UNAUTHORIZED, EmptyList)}
      [] field \in {"options", "slots", "search"} ->
           {Http(HTTP_OK, TwoItems), TransportError}
      [] field = "create" -> {Http(HTTP_CREATED, JObj(Id7)), Http(404, NotJson)}
      [] field = "book" -> {Http(HTTP_CREATED, JObj(Id9)), TransportError}

\* one module-level client, rebound by every request
shared_client(heap, ref) == heap[Len(heap)]

\* the handler's local `client`: the instance this request constructed
client_of(heap, ref) == heap[ref]

\* The handler of a slot run on the replies received so far: call_tool
\* with its client looked up through the slot's reference.
handle(slot, heap, environ) ==
    IF credentials_missing(slot.request.arguments)
    THEN Served(HTTPException(400,
             "Missing required parameters: subdomain and api_key", "", <<>>),
             <<>>, <<>>)
    ELSE dispatch(slot.request, client_of(heap, slot.client), slot.replies)

\* an upstream call as it goes out, tagged with the slot that sent it
Wire(r, c) ==
    [slot |-> r, method |-> c.method, base |-> c.base, key |-> c.key,
     path |-> c.path, arg |-> c.arg, params |-> c.params, json |-> c.json]

\* The handler runs on up to its next upstream call, or to its end.
Resume(r, slot, heap) ==
    LET out == handle(slot, heap, env)
    IN  IF Len(out.calls) > slot.answered
        THEN LET c == out.calls[slot.answered + 1]
             IN  /\ inflight' = [inflight EXCEPT ![r] =
                        [slot EXCEPT !.pc = "waiting", !.pending = c.path]]
                 /\ calls' = Append(calls, Wire(r, c))
        ELSE /\ inflight' = [inflight EXCEPT ![r] =
                    [slot EXCEPT !.pc = "done", !.pending = "",
                                 !.response = out.response]]
             /\ calls' = calls

InitConc ==
    /\ env \in Envs
    /\ clients = <<>>
    /\ decor = NoDecor
    /\ Idle

\* A request arrives: credentials check, client construction, and the
\* handler up to its first upstream call.
Receive(r) ==
    /\ inflight[r].pc = "idle"
    /\ \E req \in ConcRequests :
          LET missing == credentials_missing(req.arguments)
              heap == IF missing THEN clients
                      ELSE Append(clients, JuvonnoClient(req.arguments["api_key"],
                                      req.arguments["subdomain"], env))
              slot == [NoInflight EXCEPT !.request = req,
                          !.client = IF missing THEN 0 ELSE Len(heap)]
          IN  /\ clients' = heap
              /\ Resume(r, slot, heap)
    /\ UNCHANGED <<env, request, response, result, decor, clock, book_patient_id>>

\* The upstream answers the call a request waits for, and its handler
\* goes on.
UpstreamReply(r) ==
    /\ inflight[r].pc = "waiting"
    /\ \E reply \in ConcReplies(ReplyField(inflight[r].pending)) :
          LET slot == [inflight[r] EXCEPT
                          !.replies[ReplyField(inflight[r].pending)] = reply,
                          !.answered = @ + 1]
          IN  Resume(r, slot, clients)
    /\ UNCHANGED <<env, request, clients, response, result, decor, clock,
                   book_patient_id>>

NextConc == \E r \in Slots : Receive(r) \/ UpstreamReply(r)

SpecConc == InitConc /\ [][NextConc]_vars

(***************************************************************************)
(* C11..C16                                                                *)
(***************************************************************************)
DatesDefaulted ==
    /\ IsClientCall("get_available_slots")
    /\ ~Truthy(Arg("start_date"))
    /\ ~Truthy(Arg("end_date"))
    /\ calls # <<>>

\* C11: get_available_slots called with no start and no end date sends a
\* range whose start date is the current date (the date of the first clock
\* read) and whose end date is exactly 7 calendar days after that start
\* date, whenever the call is made, a call whose two clock reads fall on
\* either side of midnight included.
C11_DefaultRangeIsSevenDays ==
    DatesDefaulted =>
        /\ <<"start_date", strftime(clock[1])>> \in calls[1].params
        /\ <<"end_date", strftime(clock[1] + 7)>> \in calls[1].params

\* C12: every route path listed in the "endpoints" field of the GET /
\* health payload is a path the service registers a handler for.
C12_ListedEndpointsAreRouted ==
    request.route = "/" =>
        \A i \in 1..Len(response.endpoints) : response.endpoints[i] \in Routes

IsSearch(c) == c.method = "GET" /\ c.path = "patients/search"
IsCreate(c) == c.method = "POST" /\ c.path = "patients"

\* C14: _create_or_get_patient with an email issues the patient search
\* before any creation; a search answered 200 with at least one match returns
\* the first match's id and issues no POST /patients; and whenever the search
\* fails (status other than 200, or no answer) or the creation fails (status
\* other than 201, or no answer) the result is absent.
C14_ResolvePatient ==
    IsClientCall("_create_or_get_patient") =>
        /\ Truthy(Arg("email")) =>
              \A i \in 1..Len(calls) :
                  IsCreate(calls[i]) => \E j \in 1..(i - 1) : IsSearch(calls[j])
        /\ \A i \in 1..Len(calls) :
              /\ (/\ IsSearch(calls[i])
                  /\ Is(calls[i].reply, HTTP_OK)
                  /\ calls[i].reply.body.t = "list"
                  /\ calls[i].reply.body.items # <<>>) =>
                    /\ result = RetId(calls[i].reply.body.items[1].id)
                    /\ \A k \in 1..Len(calls) : ~IsCreate(calls[k])
              /\ (IsSearch(calls[i]) /\ ~Is(calls[i].reply, HTTP_OK)) =>
                    result = RetNone
              /\ (IsCreate(calls[i]) /\ ~Is(calls[i].reply, HTTP_CREATED)) =>
                    result = RetNone

IsValidate(c) == c.method = "GET" /\ c.path = "branches"
IsListing(c) == c.method = "GET" /\ c.path = "branches/options"
Validated == calls # <<>> /\ IsValidate(calls[1]) /\ Is(calls[1].reply, HTTP_OK)

\* C15: get_providers issues the validation call (GET /branches) before any
\* other upstream call, issues the provider listing (GET /branches/options)
\* only after the validation call was answered 200, and when validation
\* fails for any reason (another status, no answer, or a client without a
\* base URL) it returns the empty list and never issues the listing call.
C15_ProvidersValidateFirst ==
    IsClientCall("get_providers") =>
        /\ calls # <<>> => IsValidate(calls[1])
        /\ \A i \in 1..Len(calls) : IsListing(calls[i]) => (i = 2 /\ Validated)
        /\ ~Validated =>
              /\ result = RetJson(EmptyList)
              /\ \A i \in 1..Len(calls) : ~IsListing(calls[i])

C15_Witness ==
    /\ IsClientCall("get_providers")
    /\ Len(calls) = 1
    /\ IsValidate(calls[1])
    /\ Is(calls[1].reply, HTTP_UNAUTHORIZED)
    /\ result = RetJson(EmptyList)

CompleteBooking ==
    /\ BookingRequest
    /\ \A f \in RequiredFields : Truthy(Arg(f))
    /\ clients # <<>>
    /\ clients[1].has_base_url

\* C16: a booking made through the HTTP service (POST /call-tool
\* book_appointment or POST /book-appointment) with all required fields
\* present hands the caller's patient_email, patient_phone and patient_name
\* to patient resolution: the upstream patient search is issued with that
\* email, and a patient creation carries that email, phone and name.
C16_PatientFieldsReachResolution ==
    CompleteBooking =>
        /\ calls # <<>>
        /\ IsSearch(calls[1])
        /\ <<"email", Arg("patient_email")>> \in calls[1].params
        /\ \A i \in 1..Len(calls) :
              IsCreate(calls[i]) =>
                  /\ <<"email", Arg("patient_email")>> \in calls[i].json
                  /\ <<"phone", Arg("patient_phone")>> \in calls[i].json
                  /\ \E kv \in calls[i].json :
                        /\ kv[1] \in {"first_name", "last_name"}
                        /\ kv[2] = Arg("patient_name")

SentBy(r) == SelectSeq(calls, LAMBDA c : c.slot = r)

====
